---- MODULE Spec2Model ----
(***************************************************************************)
(* A model of the tok crate (src/lib.rs): the value type Token<S>, a       *)
(* newtype around a byte storage S, with its construction, its             *)
(* constant-time equality, its ordering, its hashing and its serde         *)
(* adapters.                                                               *)
(*                                                                         *)
(* Two storage types S are modelled:                                       *)
(*   "Array"  S = [u8; N], the storage of the crate's docs and tests       *)
(*            (Rand + AsRef<[u8]> + Hash + serde), every value N bytes;    *)
(*   "Vec"    S = Vec<u8>, a storage whose values differ in length, the    *)
(*            case the length branch of partial_cmp is written for         *)
(*            (AsRef<[u8]> + Hash + serde; not Rand, so such tokens come   *)
(*            from deserialize and clone only).                            *)
(* A run of the model is one monomorphic instantiation: every token of a   *)
(* run has the same storage type, as eq and partial_cmp take               *)
(* (&self, other: &Self).                                                  *)
(*                                                                         *)
(* The crate delegates to its dependencies; those are modelled by what     *)
(* their implementation does:                                              *)
(*   constant_time_eq::constant_time_eq  (length test, then a loop that    *)
(*       ORs together the XOR of every byte pair),                         *)
(*   core::cmp on u8 and usize, core::iter zip/filter_map/skip_while/next, *)
(*   core::hash for byte slices (length prefix, then the bytes),           *)
(*   serde's Serialize/Deserialize of [u8; N] (a tuple of N elements) and  *)
(*       of Vec<u8> (a sequence), over the serde data model.               *)
(***************************************************************************)
EXTENDS Integers, Sequences, FiniteSets, TLC

(* ------------------------------ bounds -------------------------------- *)

\* N of the array storage [u8; N] (32 in the crate's tests).
NBytes == 2

\* Longest Vec<u8> storage.
MaxLen == 2

\* Bytes are drawn from 0..MaxByte.
MaxByte == 1

\* The hasher H of the model keeps its state modulo HashMod.
HashMod == 11

\* Initial hasher states are drawn from 0..MaxSeed.
MaxSeed == 1

\* The width of u8.
ByteBits == 8

Slots == {"t1", "t2"}

Byte == 0 .. MaxByte

StorageTypes == {"Array", "Vec"}

RECURSIVE SeqsOfLen(_)
SeqsOfLen(n) ==
    IF n = 0 THEN {<<>>}
    ELSE {Append(s, x) : s \in SeqsOfLen(n - 1), x \in Byte}

\* Every byte sequence of length 0..MaxLen.
ByteSeqs == UNION {SeqsOfLen(n) : n \in 0 .. MaxLen}

\* The values of the storage type S.
Storage(ty) == IF ty = "Array" THEN SeqsOfLen(NBytes) ELSE ByteSeqs

\* The element sequences offered to deserialize: for [u8; N], sequences
\* shorter than, as long as and longer than N; for Vec<u8>, its values.
Inputs(ty) ==
    IF ty = "Array"
    THEN UNION {SeqsOfLen(n) : n \in 0 .. NBytes + 1}
    ELSE ByteSeqs

(* ------------------------------ state --------------------------------- *)

VARIABLES
    S,        \* the storage type of this instantiation of Token<S>
    live,     \* the slots that hold a token
    tokens,   \* tokens[s]: the bytes self.0.as_ref() of the token in slot s
    born,     \* born[s]: the bytes the token in slot s was constructed with
    frame     \* the last call on tokens and what it returned

vars == <<S, live, tokens, born, frame>>

Idle ==
    [op |-> "idle", a |-> "t1", b |-> "t1", eq |-> FALSE, some |-> FALSE,
     ord |-> "Equal", steps |-> 0, seen |-> {}, h0 |-> 0, h |-> 0, kind |-> "none",
     wire |-> <<>>, ok |-> FALSE, src |-> "none"]

(* ---------------------------- u8 arithmetic --------------------------- *)

RECURSIVE BitXor(_, _, _)
\* x ^ y on w-bit unsigned integers.
BitXor(x, y, w) ==
    IF w = 0 THEN 0
    ELSE ((x + y) % 2) + 2 * BitXor(x \div 2, y \div 2, w - 1)

RECURSIVE BitOr(_, _, _)
\* x | y on w-bit unsigned integers.
BitOr(x, y, w) ==
    IF w = 0 THEN 0
    ELSE (IF (x % 2) + (y % 2) > 0 THEN 1 ELSE 0)
         + 2 * BitOr(x \div 2, y \div 2, w - 1)

(* ---------------------------- construction ---------------------------- *)

\* Token::create(data): Token(data).
Token_create(data) == data

\* Token::generate(): Token(rng.gen()); r is the value the generator drew.
Token_generate(r) == r

\* Mutant: the copy is a fresh all-zero storage, not the original's bytes.
Token_clone_zeroed(data) == [i \in 1 .. Len(data) |-> 0]

\* #[derive(Clone)]: Token(self.0.clone()).
Token_clone(data) == data

(* ------------------------------ equality ------------------------------ *)

\* The loop body of constant_time_eq's constant_time_ne: tmp |= a[i] ^ b[i].
\* st.steps counts the byte pairs compared.
NeStep(a, b, i, st) ==
    [tmp   |-> BitOr(st.tmp, BitXor(a[i], b[i], ByteBits), ByteBits),
     steps |-> st.steps + 1]

RECURSIVE NeLoopOffByOne(_, _, _, _)
\* Mutant: the loop stops one pair early, for i in 0..len - 1.
NeLoopOffByOne(a, b, i, st) ==
    IF i > Len(a) - 1 THEN st
    ELSE NeLoopOffByOne(a, b, i + 1, NeStep(a, b, i, st))

RECURSIVE NeLoop(_, _, _, _)
\* for i in 0..len { tmp |= a[i] ^ b[i] }: no exit before i reaches len.
NeLoop(a, b, i, st) ==
    IF i > Len(a) THEN st ELSE NeLoop(a, b, i + 1, NeStep(a, b, i, st))

\* constant_time_eq(a, b): a.len() == b.len() && constant_time_ne(a, b) == 0.
constant_time_eq(a, b) ==
    IF Len(a) = Len(b)
    THEN LET r == NeLoop(a, b, 1, [tmp |-> 0, steps |-> 0])
         IN  [eq |-> (r.tmp = 0), steps |-> r.steps]
    ELSE [eq |-> FALSE, steps |-> 0]

\* Mutant: the token is compared with itself,
\* constant_time_eq(self.0.as_ref(), self.0.as_ref()).
Token_constant_time_eq_self(self, other) == constant_time_eq(self, self)

\* Token::constant_time_eq(&self, other).
Token_constant_time_eq(self, other) == constant_time_eq(self, other)

RECURSIVE EarlyExitScan(_, _, _, _)
\* A slice comparison that returns at the first pair that differs.
EarlyExitScan(a, b, i, steps) ==
    IF i > Len(a) THEN [eq |-> TRUE, steps |-> steps]
    ELSE IF a[i] # b[i] THEN [eq |-> FALSE, steps |-> steps + 1]
    ELSE EarlyExitScan(a, b, i + 1, steps + 1)

\* Mutant: eq by the storage's own ==, self.0.as_ref() == other.0.as_ref().
Token_eq_early_exit(self, other) ==
    IF Len(self) = Len(other)
    THEN EarlyExitScan(self, other, 1, 0)
    ELSE [eq |-> FALSE, steps |-> 0]

\* Mutant: the last byte pair is left out of the comparison.
Token_eq_off_by_one(self, other) ==
    IF Len(self) = Len(other)
    THEN LET r == NeLoopOffByOne(self, other, 1, [tmp |-> 0, steps |-> 0])
         IN  [eq |-> (r.tmp = 0), steps |-> r.steps]
    ELSE [eq |-> FALSE, steps |-> 0]

\* <Token as PartialEq>::eq(&self, other).
Token_eq(self, other) == Token_constant_time_eq(self, other)

(* ------------------------------ ordering ------------------------------ *)

\* <u8 as PartialOrd>::partial_cmp: always Some(ordering).
u8_partial_cmp(s, o) ==
    IF s < o THEN "Less" ELSE IF s > o THEN "Greater" ELSE "Equal"

\* <usize as PartialOrd>::partial_cmp: always Some(ordering).
usize_partial_cmp(m, n) ==
    IF m < n THEN "Less" ELSE IF m > n THEN "Greater" ELSE "Equal"

RECURSIVE CmpScan(_, _, _, _)
\* .iter().zip(..).filter_map(|(s, o)| s.partial_cmp(o))
\*     .skip_while(|&ord| ord == Equal).next()
\* The chain is lazy: next() pulls pair i, drops it while it compares Equal,
\* and returns the first other ordering without pulling a further pair; it
\* returns None (found = FALSE) when the zip is exhausted. seen is the set of
\* the pairs pulled (pair i of the model is the code's pair i - 1).
CmpScan(a, b, i, seen) ==
    IF i > Len(a) \/ i > Len(b)
    THEN [found |-> FALSE, ord |-> "Equal", seen |-> seen]
    ELSE LET c == u8_partial_cmp(a[i], b[i])
         IN  IF c = "Equal"
             THEN CmpScan(a, b, i + 1, seen \cup {i})
             ELSE [found |-> TRUE, ord |-> c, seen |-> seen \cup {i}]

\* Mutant: no skip_while, the first pair decides.
Token_partial_cmp_first_pair(self, other) ==
    IF Len(self) = Len(other)
    THEN IF Len(self) = 0
         THEN [some |-> TRUE, ord |-> "Equal", seen |-> {}]
         ELSE [some |-> TRUE, ord |-> u8_partial_cmp(self[1], other[1]),
               seen |-> {1}]
    ELSE [some |-> TRUE, ord |-> usize_partial_cmp(Len(self), Len(other)),
          seen |-> {}]

\* Mutant: the closure compares the other way round, o.partial_cmp(s), and
\* the length branch likewise.
Token_partial_cmp_swapped(self, other) ==
    IF Len(self) = Len(other)
    THEN LET r == CmpScan(other, self, 1, {})
         IN  [some |-> TRUE, ord |-> IF r.found THEN r.ord ELSE "Equal",
              seen |-> r.seen]
    ELSE [some |-> TRUE, ord |-> usize_partial_cmp(Len(other), Len(self)),
          seen |-> {}]

\* Mutant: tokens of different lengths are ordered by their common prefix
\* (the zip without the length test), then reported Equal.
Token_partial_cmp_no_len(self, other) ==
    LET r == CmpScan(self, other, 1, {})
    IN  [some |-> TRUE, ord |-> IF r.found THEN r.ord ELSE "Equal",
         seen |-> r.seen]

\* Mutant: every pair is compared and the first ordering that is not Equal
\* is kept (a fold over all the pairs).
Token_partial_cmp_all_pairs(self, other) ==
    IF Len(self) = Len(other)
    THEN LET r == CmpScan(self, other, 1, {})
         IN  [some |-> TRUE, ord |-> IF r.found THEN r.ord ELSE "Equal",
              seen |-> 1 .. Len(self)]
    ELSE [some |-> TRUE, ord |-> usize_partial_cmp(Len(self), Len(other)),
          seen |-> {}]

\* <Token as PartialOrd>::partial_cmp(&self, other) -> Option<Ordering>.
\* some: the Option is Some; seen: the byte pairs compared.
Token_partial_cmp(self, other) ==
    IF Len(self) = Len(other)
    THEN LET r == CmpScan(self, other, 1, {})
         IN  [some |-> TRUE,
              ord  |-> IF r.found THEN r.ord ELSE "Equal",
              seen |-> r.seen]
    ELSE [some |-> TRUE,
          ord  |-> usize_partial_cmp(Len(self), Len(other)),
          seen |-> {}]

(* ------------------------------ hashing ------------------------------- *)

\* Hasher::write of one integer into the hasher H of the model.
HasherWrite(h, x) == (h * 3 + x + 1) % HashMod

RECURSIVE HasherWriteBytes(_, _, _)
\* Hasher::write(bytes): the bytes in order.
HasherWriteBytes(h, bytes, i) ==
    IF i > Len(bytes) THEN h
    ELSE HasherWriteBytes(HasherWrite(h, bytes[i]), bytes, i + 1)

\* <[u8] as Hash>::hash, which [u8; N] and Vec<u8> delegate to:
\* state.write_usize(len), then the bytes.
Storage_hash(data, state) ==
    HasherWriteBytes(HasherWrite(state, Len(data)), data, 1)

\* <Token as Hash>::hash(&self, state): self.0.hash(state).
Token_hash(self, state) == Storage_hash(self, state)

(* --------------------------- serialization ---------------------------- *)

\* <S as Serialize>::serialize on the serde data model: [u8; N] is a tuple
\* of N u8 elements, Vec<u8> a sequence of its elements.
Storage_serialize(ty, data) ==
    [kind |-> IF ty = "Array" THEN "tuple" ELSE "seq", elems |-> data]

\* <Token as Serialize>::serialize: self.0.serialize(serializer).
Token_serialize(ty, self) == Storage_serialize(ty, self)

\* <S as Deserialize>::deserialize from the elements the deserializer holds.
\* [u8; N]: the visitor takes N elements and fails with invalid_length when
\* there are fewer; whether elements left over are an error is the data
\* format's decision (strictEnd). Vec<u8>: every element.
Storage_deserialize(ty, elems, strictEnd) ==
    IF ty = "Array"
    THEN IF Len(elems) < NBytes
         THEN [ok |-> FALSE, val |-> <<>>]
         ELSE IF Len(elems) > NBytes /\ strictEnd
         THEN [ok |-> FALSE, val |-> <<>>]
         ELSE [ok |-> TRUE, val |-> SubSeq(elems, 1, NBytes)]
    ELSE [ok |-> TRUE, val |-> elems]

\* Mutant: the decoded storage is dropped, .map(|_| Token(zeroed storage)).
Token_deserialize_zeroed(ty, elems, strictEnd) ==
    LET r == Storage_deserialize(ty, elems, strictEnd)
    IN  IF r.ok THEN [ok |-> TRUE, val |-> [i \in 1 .. Len(r.val) |-> 0]]
        ELSE r

\* <Token as Deserialize>::deserialize: T::deserialize(deserializer).map(Token).
Token_deserialize(ty, elems, strictEnd) ==
    LET r == Storage_deserialize(ty, elems, strictEnd)
    IN  IF r.ok THEN [ok |-> TRUE, val |-> r.val] ELSE r

(* ------------------------------ actions ------------------------------- *)

Init ==
    /\ S \in StorageTypes
    /\ live = {}
    /\ tokens = [s \in Slots |-> <<>>]
    /\ born = [s \in Slots |-> <<>>]
    /\ frame = Idle

\* let dst = Token::generate();   (S: Rand)
Generate(dst) ==
    /\ S = "Array"
    /\ dst \notin live
    /\ \E r \in Storage(S) :
          /\ tokens' = [tokens EXCEPT ![dst] = Token_generate(r)]
          /\ born' = [born EXCEPT ![dst] = r]
    /\ live' = live \cup {dst}
    /\ frame' = [Idle EXCEPT !.op = "generate", !.a = dst]
    /\ UNCHANGED S

\* let dst = unsafe { Token::create(data) };   (S: Rand)
Create(dst) ==
    /\ S = "Array"
    /\ dst \notin live
    /\ \E data \in Storage(S) :
          /\ tokens' = [tokens EXCEPT ![dst] = Token_create(data)]
          /\ born' = [born EXCEPT ![dst] = data]
    /\ live' = live \cup {dst}
    /\ frame' = [Idle EXCEPT !.op = "create", !.a = dst]
    /\ UNCHANGED S

\* let dst = src.clone();
Clone(src, dst) ==
    /\ src \in live
    /\ dst \notin live
    /\ tokens' = [tokens EXCEPT ![dst] = Token_clone(tokens[src])]
    /\ born' = [born EXCEPT ![dst] = tokens[src]]
    /\ live' = live \cup {dst}
    /\ frame' = [Idle EXCEPT !.op = "clone", !.a = dst, !.b = src]
    /\ UNCHANGED S

\* a == b
Eq(a, b) ==
    /\ a \in live
    /\ b \in live
    /\ LET r == Token_eq(tokens[a], tokens[b])
       IN  frame' = [Idle EXCEPT !.op = "eq", !.a = a, !.b = b,
                                 !.eq = r.eq, !.steps = r.steps]
    /\ UNCHANGED <<S, live, tokens, born>>

\* a.partial_cmp(&b)
Cmp(a, b) ==
    /\ a \in live
    /\ b \in live
    /\ LET r == Token_partial_cmp(tokens[a], tokens[b])
       IN  frame' = [Idle EXCEPT !.op = "cmp", !.a = a, !.b = b,
                                 !.some = r.some, !.ord = r.ord,
                                 !.seen = r.seen,
                                 !.steps = Cardinality(r.seen)]
    /\ UNCHANGED <<S, live, tokens, born>>

\* a.hash(&mut state), the hasher being in state h0 before the call.
Hash(a) ==
    /\ a \in live
    /\ \E h0 \in 0 .. MaxSeed :
          frame' = [Idle EXCEPT !.op = "hash", !.a = a, !.h0 = h0,
                                !.h = Token_hash(tokens[a], h0)]
    /\ UNCHANGED <<S, live, tokens, born>>

\* a.serialize(serializer)
Serialize(a) ==
    /\ a \in live
    /\ LET w == Token_serialize(S, tokens[a])
       IN  frame' = [Idle EXCEPT !.op = "ser", !.a = a, !.ok = TRUE,
                                 !.kind = w.kind, !.wire = w.elems]
    /\ UNCHANGED <<S, live, tokens, born>>

\* Token::deserialize(deserializer) -> Result<Token, D::Error>, the
\* deserializer holding elems; src names the token elems was serialized from.
DeserializeFrom(dst, elems, src) ==
    /\ dst \notin live
    /\ \E strictEnd \in BOOLEAN :
          LET r == Token_deserialize(S, elems, strictEnd)
              d == Storage_deserialize(S, elems, strictEnd)
          IN  /\ frame' = [Idle EXCEPT !.op = "deser", !.a = dst, !.ok = r.ok,
                                       !.wire = elems, !.src = src]
              /\ IF r.ok
                 THEN /\ tokens' = [tokens EXCEPT ![dst] = r.val]
                      /\ born' = [born EXCEPT ![dst] = d.val]
                      /\ live' = live \cup {dst}
                 ELSE UNCHANGED <<live, tokens, born>>
    /\ UNCHANGED S

\* Deserialize what the last call, a serialize, emitted.
Deserialize(dst) ==
    /\ frame.op = "ser"
    /\ DeserializeFrom(dst, frame.wire, frame.a)

\* Deserialize an arbitrary element sequence that arrived from outside.
DeserializeInput(dst) ==
    \E elems \in Inputs(S) : DeserializeFrom(dst, elems, "none")

Next ==
    \/ \E dst \in Slots : Generate(dst)
    \/ \E dst \in Slots : Create(dst)
    \/ \E src, dst \in Slots : Clone(src, dst)
    \/ \E a, b \in Slots : Eq(a, b)
    \/ \E a, b \in Slots : Cmp(a, b)
    \/ \E a \in Slots : Hash(a)
    \/ \E a \in Slots : Serialize(a)
    \/ \E dst \in Slots : Deserialize(dst)
    \/ \E dst \in Slots : DeserializeInput(dst)

Spec == Init /\ [][Next]_vars

TypeOK ==
    /\ S \in StorageTypes
    /\ live \subseteq Slots
    /\ \A s \in live : tokens[s] \in Storage(S)

(* ------------------------- reference notions -------------------------- *)

\* The operands of the last call.
X == tokens[frame.a]

Y == tokens[frame.b]

SameLen == Len(X) = Len(Y)

\* Every byte of x equals the corresponding byte of y.
BytewiseEqual(x, y) == \A i \in 1 .. Len(x) : x[i] = y[i]

\* The lowest index at which two different sequences of one length differ.
FirstDiff(x, y) ==
    CHOOSE i \in 1 .. Len(x) :
        /\ x[i] # y[i]
        /\ \A j \in 1 .. (i - 1) : x[j] = y[j]

\* The lexicographic order on byte sequences of one length.
Lex(x, y) ==
    IF BytewiseEqual(x, y) THEN "Equal"
    ELSE IF x[FirstDiff(x, y)] < y[FirstDiff(x, y)] THEN "Less"
    ELSE "Greater"

Reverse(o) ==
    IF o = "Less" THEN "Greater" ELSE IF o = "Greater" THEN "Less" ELSE "Equal"

AtMost == {"Less", "Equal"}

(* ------------------------------- claims ------------------------------- *)

\* C1: eq on two tokens of one length compares every byte pair: the number
\* of byte compares is the length, wherever the first mismatch is and
\* whether or not the tokens are equal.
C1_EqVisitsEveryPair ==
    (frame.op = "eq" /\ SameLen) => frame.steps = Len(X)

\* C1 witness: an eq of two tokens that differ already in their first byte
\* and have a second byte, which counted every pair.
C1_Witness ==
    /\ frame.op = "eq"
    /\ frame.a # frame.b
    /\ SameLen
    /\ Len(X) >= 2
    /\ X[1] # Y[1]
    /\ frame.steps = Len(X)

\* C2: for two tokens of one length, eq is true exactly when every byte of
\* one equals the corresponding byte of the other; so eq(t, t) is true, two
\* tokens created from the same bytes are equal, and a single changed byte
\* makes them unequal.
C2_EqIffBytewiseEqual ==
    (frame.op = "eq" /\ SameLen) =>
        /\ frame.eq <=> BytewiseEqual(X, Y)
        /\ (frame.a = frame.b) => frame.eq
        /\ (born[frame.a] = born[frame.b]) => frame.eq
        /\ (Cardinality({i \in 1 .. Len(X) : X[i] # Y[i]}) = 1) => ~frame.eq

\* C2 witness: an eq of two tokens that differ in their last byte only,
\* which returned false.
C2_Witness ==
    /\ frame.op = "eq"
    /\ frame.a # frame.b
    /\ SameLen
    /\ Len(X) >= 2
    /\ {i \in 1 .. Len(X) : X[i] # Y[i]} = {Len(X)}
    /\ ~frame.eq

\* C3: partial_cmp on two tokens of one length returns Some of exactly one
\* of Less, Equal, Greater, and Equal exactly when eq is true; two tokens of
\* different content are ordered strictly.
C3_CmpTotalAgreesWithEq ==
    (frame.op = "cmp" /\ SameLen) =>
        /\ frame.some
        /\ frame.ord \in {"Less", "Equal", "Greater"}
        /\ (frame.ord = "Equal") <=> Token_eq(X, Y).eq
        /\ (X # Y) => frame.ord \in {"Less", "Greater"}

\* C3 witness: a partial_cmp of two tokens that agree in their first byte
\* and differ later, which returned a strict ordering.
C3_Witness ==
    /\ frame.op = "cmp"
    /\ SameLen
    /\ Len(X) >= 2
    /\ X[1] = Y[1]
    /\ X # Y
    /\ frame.ord \in {"Less", "Greater"}

\* C4: partial_cmp on two tokens of one length is the lexicographic order:
\* the order of the first byte pair that differs, Equal when none does.
C4_CmpIsLexicographic ==
    (frame.op = "cmp" /\ SameLen) => frame.ord = Lex(X, Y)

\* C4 witness: a partial_cmp that returned Less although a later byte pair
\* is ordered the other way.
C4_Witness ==
    /\ frame.op = "cmp"
    /\ SameLen
    /\ Len(X) >= 2
    /\ X[1] < Y[1]
    /\ X[Len(X)] > Y[Len(X)]
    /\ frame.ord = "Less"

\* C5: over tokens of mixed lengths partial_cmp is antisymmetric (the
\* reverse call returns the reverse ordering) and transitive (with every
\* third token z of the storage type), and a token of fewer bytes is Less
\* than a token of more bytes whatever the bytes are.
C5_OrderLaws ==
    (frame.op = "cmp") =>
        /\ Token_partial_cmp(Y, X).ord = Reverse(frame.ord)
        /\ \A z \in Storage(S) :
              LET yz == Token_partial_cmp(Y, z).ord
                  xz == Token_partial_cmp(X, z).ord
              IN  /\ (frame.ord \in AtMost /\ yz \in AtMost) => xz \in AtMost
                  /\ (frame.ord = "Less" /\ yz \in AtMost) => xz = "Less"
                  /\ (frame.ord \in AtMost /\ yz = "Less") => xz = "Less"
        /\ (Len(X) < Len(Y)) => frame.ord = "Less"
        /\ (Len(X) > Len(Y)) => frame.ord = "Greater"

\* C5 witness: a partial_cmp of a shorter token with greater bytes and a
\* longer token with smaller bytes, which returned Less, with a third token
\* above both.
C5_Witness ==
    /\ frame.op = "cmp"
    /\ Len(X) >= 1
    /\ Len(X) < Len(Y)
    /\ X[1] > Y[1]
    /\ frame.ord = "Less"
    /\ \E z \in Storage(S) : Token_partial_cmp(Y, z).ord = "Less"

\* C6: serialize emits exactly the token's bytes, and deserializing them
\* succeeds and yields a token that holds the decoded bytes unchanged and is
\* eq to the token serialized.
C6_RoundTrip ==
    /\ (frame.op = "ser") =>
          /\ frame.wire = X
          /\ (S = "Array") => Len(frame.wire) = NBytes
    /\ (frame.op = "deser" /\ frame.src # "none") =>
          /\ frame.ok
          /\ frame.a \in live
          /\ frame.wire = tokens[frame.src]
          /\ X = frame.wire
          /\ Token_eq(X, tokens[frame.src]).eq

\* C6 witness: a token with a non-zero byte was serialized and deserialized
\* into another slot.
C6_Witness ==
    /\ frame.op = "deser"
    /\ frame.src # "none"
    /\ frame.src # frame.a
    /\ frame.ok
    /\ \E i \in 1 .. Len(X) : X[i] # 0

\* C7: two tokens that are eq leave hashers that start in the same state in
\* the same state.
C7_HashConsistent ==
    (frame.op = "hash") =>
        \A b \in live :
            Token_eq(X, tokens[b]).eq => Token_hash(tokens[b], frame.h0) = frame.h

\* C7 witness: a token was hashed while another token that is eq to it
\* exists.
C7_Witness ==
    /\ frame.op = "hash"
    /\ \E b \in live \ {frame.a} : Token_eq(X, tokens[b]).eq
    /\ Len(X) >= 1

\* C8, as the claim states it: deserializing an element sequence whose length
\* is not N is an error and constructs no token. Token::deserialize has no
\* length test of its own; for a sequence longer than N the outcome is the
\* data format's (strictEnd of Storage_deserialize), which the crate leaves
\* open, so the formula is stated here and settled neither way.
C8_WrongLengthRejected ==
    (frame.op = "deser" /\ S = "Array" /\ Len(frame.wire) # NBytes) => ~frame.ok

\* C9: no call changes a token: every token holds the bytes it was
\* constructed with, an array token N of them, and a copy the bytes of its
\* original.
C9_Immutable ==
    /\ \A s \in live :
          /\ tokens[s] = born[s]
          /\ (S = "Array") => Len(tokens[s]) = NBytes
    /\ (frame.op = "clone") => tokens[frame.a] = tokens[frame.b]

\* C9 witness: a token with a non-zero byte was copied.
C9_Witness ==
    /\ frame.op = "clone"
    /\ \E i \in 1 .. Len(X) : X[i] # 0

====
